---- MODULE Spec2Model ----
(***************************************************************************)
(* The three audio scripts of the repository:                              *)
(*   freqamp.py          live high-frequency boost                         *)
(*   rnnoisetest.py      live noise suppression                            *)
(*   sounddevicetest.py  record to a file, then denoise the file           *)
(* Spec       the life of one run of a script: argument parsing, setup,    *)
(*            stream open, the audio callback, the record variant's        *)
(*            writer loop, interrupts, exceptions, post-pass, exit.        *)
(* SpecName   the record variant's file names (recording and denoised).    *)
(* SpecFilter the frequency-boost callback on one block.                   *)
(***************************************************************************)
EXTENDS Integers, Sequences, FiniteSets, TLC

VARIABLES
  script,             \* which script runs
  argv,               \* the command line: list_devices flag, -c value (0: not given)
  deviceMax,          \* max_input_channels the OS reports for the input device
  max_input_channels, \* freqamp.py:47 (0 until queried)
  channels,           \* args.channels (0 while args has no such attribute)
  pc,                 \* position of the main thread
  exc,                \* the exception propagating or being handled
  streamOpen,         \* the sd.Stream / sd.InputStream is open
  streamChannels,     \* channels= the stream was opened with
  fileOpen,           \* the recording sf.SoundFile is open
  q,                  \* queue.Queue of captured blocks
  held,               \* the block q.get() returned, not yet written (0: none)
  captured,           \* blocks handed to the callback, in order
  written,            \* blocks written to the recording, in order
  raisedAt,           \* where an Exception was raised ("none": nowhere)
  ended,              \* how the user ended streaming
  stderr,             \* what the process printed on stderr at exit
  exitStatus,         \* the process's exit status (read when pc = "terminated")
  postRead,           \* the post-pass has read the recording
  denoisedWritten,    \* the post-pass has written the denoised file
  filename,           \* args.filename
  denoised_filename,  \* sounddevicetest.py:73
  fs,                 \* the file system: path -> what the file holds
  npc,                \* position in the file-name steps
  indata,             \* the block handed to the frequency-boost callback
  processed_audio,    \* lfilter's result, before the clip
  outdata,            \* what the callback stored in the output buffer
  fpc                 \* position of the frequency-boost callback

lifeVars == <<script, argv, deviceMax, max_input_channels, channels, pc, exc,
              streamOpen, streamChannels, fileOpen, q, held, captured, written,
              raisedAt, ended, stderr, exitStatus, postRead, denoisedWritten>>
nameVars == <<filename, denoised_filename, fs, npc>>
filterVars == <<indata, processed_audio, outdata, fpc>>
vars == <<lifeVars, nameVars, filterVars>>

(***************************************************************************)
(* Bounds of the model.                                                    *)
(***************************************************************************)
MaxBlocks == 3
MaxChannels == 2

FREQAMP == "freqamp"
RNNOISE == "rnnoisetest"
RECORD == "sounddevicetest"
Scripts == {FREQAMP, RNNOISE, RECORD}

(***************************************************************************)
(* Process exit.  sys.exit(arg): an integer is the status; None is status  *)
(* 0; anything else is printed on stderr and the status is 1.              *)
(* ArgumentParser.exit(status=0, message=None) prints message when it is   *)
(* non-empty and calls sys.exit(status).  The scripts call parser.exit     *)
(* with ONE positional argument, which is therefore the status.            *)
(***************************************************************************)
IntArg(n) == [t |-> "int", i |-> n, s |-> ""]
StrArg(str) == [t |-> "str", i |-> 0, s |-> str]
NoneArg == [t |-> "none", i |-> 0, s |-> ""]

sys_exit(arg) ==
  [code |-> IF arg.t = "int" THEN arg.i ELSE IF arg.t = "none" THEN 0 ELSE 1,
   err  |-> IF arg.t = "str" THEN arg.s ELSE ""]

parser_exit(status, message) ==
  LET r == sys_exit(status)
  IN  [code |-> r.code, err |-> IF message # "" THEN message ELSE r.err]

\* type(e).__name__ + ': ' + str(e)
ErrorMessage == "ErrorKind: message"
\* what the interpreter prints for an exception nothing catches; status 1
Traceback == "Traceback (most recent call last)"
uncaught == [code |-> 1, err |-> Traceback]
\* ArgumentParser.error: usage and the message, status 2
Usage == "usage: error: unrecognized arguments"
parser_error == [code |-> 2, err |-> Usage]

\* whether the parser of the first full parse_args(remaining) defines -c/--channels
MainParserHasChannels(s) == s # FREQAMP
\* default= of -c/--channels
ChannelsDefault(s, m) == IF s = FREQAMP THEN m ELSE 1

(***************************************************************************)
(* queue.Queue(): maxsize 0 means no limit, put never blocks; get blocks   *)
(* while the queue is empty and returns the oldest item.                   *)
(***************************************************************************)
maxsize == 0
\* a faulty queue: queue.Queue(maxsize=1), whose put blocks when it is full
QueueFullBounded(qq) == Len(qq) >= 1
QueueFull(qq) == maxsize > 0 /\ Len(qq) >= maxsize
QueuePut(qq, item) == Append(qq, item)
\* a faulty queue: queue.LifoQueue, whose get returns the newest item
QueueGetLifo(qq) == <<qq[Len(qq)], SubSeq(qq, 1, Len(qq) - 1)>>
QueueGet(qq) == <<Head(qq), Tail(qq)>>

(***************************************************************************)
(* The with statement: leaving the block, normally or by an exception,     *)
(* closes the stream or file it manages.                                   *)
(***************************************************************************)
\* a faulty exit: the resource is left as it was
NoWithExit(open) == open
WithExit(open) == FALSE

Terminate(r) ==
  /\ pc' = "terminated"
  /\ exitStatus' = r.code
  /\ stderr' = r.err

ioVars == <<streamOpen, streamChannels, fileOpen, q, held, captured, written>>
postVars == <<postRead, denoisedWritten>>
cfgVars == <<script, argv, deviceMax>>
\* the variables of the other two specifications
offVars == <<nameVars, filterVars>>

InitLife ==
  /\ script \in Scripts
  /\ argv \in [list_devices : BOOLEAN, channels : 0..MaxChannels]
  /\ deviceMax \in 1..MaxChannels
  /\ max_input_channels = 0
  /\ channels = 0
  /\ pc = "parse1"
  /\ exc = "none"
  /\ streamOpen = FALSE
  /\ streamChannels = 0
  /\ fileOpen = FALSE
  /\ q = <<>>
  /\ held = 0
  /\ captured = <<>>
  /\ written = <<>>
  /\ raisedAt = "none"
  /\ ended = "none"
  /\ stderr = ""
  /\ exitStatus = 0
  /\ postRead = FALSE
  /\ denoisedWritten = FALSE

IdleName ==
  /\ filename = <<>>
  /\ denoised_filename = <<>>
  /\ fs = <<>>
  /\ npc = "off"

IdleFilter ==
  /\ indata = <<>>
  /\ processed_audio = <<>>
  /\ outdata = <<>>
  /\ fpc = "off"

Init == InitLife /\ IdleName /\ IdleFilter

(***************************************************************************)
(* Argument parsing and setup.                                             *)
(***************************************************************************)
\* parse_known_args; --list-devices prints the devices and exits 0
ListDevices ==
  /\ pc = "parse1"
  /\ IF argv.list_devices
       THEN Terminate(parser_exit(IntArg(0), ""))
       ELSE /\ pc' = "parse2"
            /\ UNCHANGED <<exitStatus, stderr>>
  /\ UNCHANGED <<offVars, cfgVars, max_input_channels, channels, exc, ioVars, raisedAt,
                 ended, postVars>>

\* args = parser.parse_args(remaining): an option the parser does not define
\* is an error (usage message, status 2)
ParseArgs ==
  /\ pc = "parse2"
  /\ IF argv.channels # 0 /\ ~MainParserHasChannels(script)
       THEN /\ Terminate(parser_error)
            /\ UNCHANGED channels
       ELSE /\ pc' = CASE script = FREQAMP -> "query"
                       [] script = RNNOISE -> "denoiser"
                       [] OTHER -> "try"
            /\ channels' = IF ~MainParserHasChannels(script) THEN 0
                           ELSE IF argv.channels # 0 THEN argv.channels
                           ELSE ChannelsDefault(script, max_input_channels)
            /\ UNCHANGED <<exitStatus, stderr>>
  /\ UNCHANGED <<offVars, cfgVars, max_input_channels, exc, ioVars, raisedAt, ended,
                 postVars>>

\* freqamp.py:46-51, outside any try: query the input device, then add
\* -c/--channels with the device's limit as default and parse again
QueryAndReparse ==
  /\ pc = "query"
  /\ max_input_channels' = deviceMax
  /\ channels' = IF argv.channels # 0 THEN argv.channels
                  ELSE ChannelsDefault(script, deviceMax)
  /\ pc' = "open"
  /\ UNCHANGED <<offVars, cfgVars, exc, ioVars, raisedAt, ended, stderr, exitStatus,
                 postVars>>

\* rnnoisetest.py:37, outside any try
DenoiserInit ==
  /\ pc = "denoiser"
  /\ pc' = "open"
  /\ UNCHANGED <<offVars, cfgVars, max_input_channels, channels, exc, ioVars, raisedAt,
                 ended, stderr, exitStatus, postVars>>

\* sd.query_devices or RNNoise(...) raises: nothing catches it
SetupRaises ==
  /\ pc \in {"query", "denoiser"}
  /\ raisedAt' = "setup"
  /\ exc' = "Exception"
  /\ Terminate(uncaught)
  /\ UNCHANGED <<offVars, cfgVars, max_input_channels, channels, ioVars, ended, postVars>>

(***************************************************************************)
(* The try block up to the open stream.                                    *)
(***************************************************************************)
\* sounddevicetest.py:49-60: default sample rate and file name, then the
\* recording is created (mode 'x') and entered as a context manager
CreateFile ==
  /\ pc = "try"
  /\ fileOpen' = TRUE
  /\ pc' = "open"
  /\ UNCHANGED <<offVars, cfgVars, max_input_channels, channels, exc, streamOpen,
                 streamChannels, q, held, captured, written, raisedAt, ended,
                 stderr, exitStatus, postVars>>

\* the device query or the file creation raises inside the try block
CreateRaises ==
  /\ pc = "try"
  /\ exc' = "Exception"
  /\ raisedAt' = "setup"
  /\ pc' = "except"
  /\ UNCHANGED <<offVars, cfgVars, max_input_channels, channels, ioVars, ended, stderr,
                 exitStatus, postVars>>

\* with sd.Stream(...) / sd.InputStream(...): the stream opens and starts
OpenStream ==
  /\ pc = "open"
  /\ streamOpen' = TRUE
  /\ streamChannels' = channels
  /\ pc' = "streaming"
  /\ UNCHANGED <<offVars, cfgVars, max_input_channels, channels, exc, fileOpen, q, held,
                 captured, written, raisedAt, ended, stderr, exitStatus,
                 postVars>>

\* the stream cannot be opened (device busy, bad channel count, ...)
OpenRaises ==
  /\ pc = "open"
  /\ exc' = "Exception"
  /\ raisedAt' = "open"
  /\ pc' = IF fileOpen THEN "exit_file" ELSE "except"
  /\ UNCHANGED <<offVars, cfgVars, max_input_channels, channels, ioVars, ended, stderr,
                 exitStatus, postVars>>

(***************************************************************************)
(* Streaming.  The callback runs on the audio thread for as long as the    *)
(* stream is open; one invocation is one step (invocations are serialized  *)
(* and closing the stream waits for the running one).                      *)
(***************************************************************************)
\* the record variant enqueues a copy of the block; the live variants
\* process it in place
callback ==
  /\ streamOpen
  /\ Len(captured) < MaxBlocks
  /\ LET block == Len(captured) + 1
     IN  /\ captured' = Append(captured, block)
         /\ IF script = RECORD
              THEN /\ ~QueueFull(q)
                   /\ q' = QueuePut(q, block)
              ELSE q' = q
  /\ UNCHANGED <<offVars, cfgVars, max_input_channels, channels, pc, exc, streamOpen,
                 streamChannels, fileOpen, held, written, raisedAt, ended,
                 stderr, exitStatus, postVars>>

\* while True: file.write(q.get())  -- the q.get() half
WriterGet ==
  /\ script = RECORD
  /\ pc = "streaming"
  /\ held = 0
  /\ q # <<>>
  /\ held' = QueueGet(q)[1]
  /\ q' = QueueGet(q)[2]
  /\ UNCHANGED <<offVars, cfgVars, max_input_channels, channels, pc, exc, streamOpen,
                 streamChannels, fileOpen, captured, written, raisedAt, ended,
                 stderr, exitStatus, postVars>>

\* while True: file.write(q.get())  -- the file.write half
WriterWrite ==
  /\ script = RECORD
  /\ pc = "streaming"
  /\ held # 0
  /\ fileOpen
  /\ written' = Append(written, held)
  /\ held' = 0
  /\ UNCHANGED <<offVars, cfgVars, max_input_channels, channels, pc, exc, streamOpen,
                 streamChannels, fileOpen, q, captured, raisedAt, ended, stderr,
                 exitStatus, postVars>>

\* input() returns: the live variants leave the with block normally
ReturnPressed ==
  /\ script # RECORD
  /\ pc = "streaming"
  /\ ended' = "return"
  /\ pc' = "exit_stream"
  /\ UNCHANGED <<offVars, cfgVars, max_input_channels, channels, exc, ioVars, raisedAt,
                 stderr, exitStatus, postVars>>

\* Ctrl+C: KeyboardInterrupt is raised in the main thread, inside the with
\* block; a block q.get() had returned and file.write had not yet written
\* is dropped with the expression
CtrlC ==
  /\ pc = "streaming"
  /\ exc' = "KeyboardInterrupt"
  /\ ended' = "ctrlc"
  /\ held' = 0
  /\ pc' = "exit_stream"
  /\ UNCHANGED <<offVars, cfgVars, max_input_channels, channels, streamOpen,
                 streamChannels, fileOpen, q, captured, written, raisedAt,
                 stderr, exitStatus, postVars>>

\* an exception in the main thread while streaming: input() raises
\* (EOFError), file.write raises
StreamingRaises ==
  /\ pc = "streaming"
  /\ script = RECORD => held # 0
  /\ exc' = "Exception"
  /\ raisedAt' = "streaming"
  /\ held' = 0
  /\ pc' = "exit_stream"
  /\ UNCHANGED <<offVars, cfgVars, max_input_channels, channels, streamOpen,
                 streamChannels, fileOpen, q, captured, written, ended, stderr,
                 exitStatus, postVars>>

(***************************************************************************)
(* Leaving the with blocks: the stream's first (the inner one), then the   *)
(* recording's.                                                            *)
(***************************************************************************)
ExitStream ==
  /\ pc = "exit_stream"
  /\ streamOpen' = WithExit(streamOpen)
  /\ pc' = IF fileOpen THEN "exit_file" ELSE "except"
  /\ UNCHANGED <<offVars, cfgVars, max_input_channels, channels, exc, streamChannels,
                 fileOpen, q, held, captured, written, raisedAt, ended, stderr,
                 exitStatus, postVars>>

ExitFile ==
  /\ pc = "exit_file"
  /\ fileOpen' = WithExit(fileOpen)
  /\ pc' = "except"
  /\ UNCHANGED <<offVars, cfgVars, max_input_channels, channels, exc, streamOpen,
                 streamChannels, q, held, captured, written, raisedAt, ended,
                 stderr, exitStatus, postVars>>

(***************************************************************************)
(* After the try block.                                                    *)
(***************************************************************************)
\* nothing was raised: the script ends, the interpreter exits with status 0
EndOfScript ==
  /\ pc = "except"
  /\ exc = "none"
  /\ Terminate(sys_exit(NoneArg))
  /\ UNCHANGED <<offVars, cfgVars, max_input_channels, channels, exc, ioVars, raisedAt,
                 ended, postVars>>

\* except KeyboardInterrupt: the live variants call parser.exit(''); the
\* record variant goes on to the denoise post-pass
HandleKeyboardInterrupt ==
  /\ pc = "except"
  /\ exc = "KeyboardInterrupt"
  /\ IF script = RECORD
       THEN /\ pc' = "post_read"
            /\ UNCHANGED <<exitStatus, stderr>>
       ELSE Terminate(parser_exit(StrArg(""), ""))
  /\ UNCHANGED <<offVars, cfgVars, max_input_channels, channels, exc, ioVars, raisedAt,
                 ended, postVars>>

\* except Exception as e: parser.exit(type(e).__name__ + ': ' + str(e))
HandleException ==
  /\ pc = "except"
  /\ exc = "Exception"
  /\ Terminate(parser_exit(StrArg(ErrorMessage), ""))
  /\ UNCHANGED <<offVars, cfgVars, max_input_channels, channels, exc, ioVars, raisedAt,
                 ended, postVars>>

(***************************************************************************)
(* The record variant's post-pass, inside the KeyboardInterrupt handler.   *)
(***************************************************************************)
\* a faulty handler: reads the recording and exits without writing the
\* denoised file
PostReadSkipsWrite ==
  /\ pc = "post_read"
  /\ postRead' = TRUE
  /\ pc' = "post_exit"
  /\ UNCHANGED <<offVars, cfgVars, max_input_channels, channels, exc, ioVars,
                 raisedAt, ended, stderr, exitStatus, denoisedWritten>>

\* sounddevicetest.py:77-80: load the recording
PostRead ==
  /\ pc = "post_read"
  /\ postRead' = TRUE
  /\ pc' = "post_write"
  /\ UNCHANGED <<offVars, cfgVars, max_input_channels, channels, exc, ioVars, raisedAt,
                 ended, stderr, exitStatus, denoisedWritten>>

\* sounddevicetest.py:83-95: denoise per channel and write the second file
PostWrite ==
  /\ pc = "post_write"
  /\ denoisedWritten' = TRUE
  /\ pc' = "post_exit"
  /\ UNCHANGED <<offVars, cfgVars, max_input_channels, channels, exc, ioVars, raisedAt,
                 ended, stderr, exitStatus, postRead>>

\* sounddevicetest.py:99: parser.exit(0)
PostExit ==
  /\ pc = "post_exit"
  /\ Terminate(parser_exit(IntArg(0), ""))
  /\ UNCHANGED <<offVars, cfgVars, max_input_channels, channels, exc, ioVars, raisedAt,
                 ended, postVars>>

\* the post-pass raises (unreadable file, denoiser failure, write failure):
\* an exception raised inside an except clause is not caught by the
\* except Exception clause of the same try
PostRaises ==
  /\ pc \in {"post_read", "post_write"}
  /\ raisedAt' = "postpass"
  /\ exc' = "Exception"
  /\ Terminate(uncaught)
  /\ UNCHANGED <<offVars, cfgVars, max_input_channels, channels, ioVars, ended, postVars>>

Next ==
  \/ ListDevices
  \/ ParseArgs
  \/ QueryAndReparse
  \/ DenoiserInit
  \/ SetupRaises
  \/ CreateFile
  \/ CreateRaises
  \/ OpenStream
  \/ OpenRaises
  \/ callback
  \/ WriterGet
  \/ WriterWrite
  \/ ReturnPressed
  \/ CtrlC
  \/ StreamingRaises
  \/ ExitStream
  \/ ExitFile
  \/ EndOfScript
  \/ HandleKeyboardInterrupt
  \/ HandleException
  \/ PostRead
  \/ PostWrite
  \/ PostExit
  \/ PostRaises

Spec == Init /\ [][Next]_vars

(***************************************************************************)
(* Properties of Spec.                                                     *)
(***************************************************************************)
IsPrefix(s, u) == Len(s) <= Len(u) /\ s = SubSeq(u, 1, Len(s))
NoRepeats(s) == \A i, j \in 1..Len(s) : i # j => s[i] # s[j]

\* C1: record variant, any interleaving of callback and writer loop: the
\* blocks written to the file are a prefix of the blocks captured (capture
\* order, none twice, none out of order).
C1_WrittenIsPrefixOfCaptured ==
  script = RECORD => IsPrefix(written, captured) /\ NoRepeats(written)

C1_Witness ==
  /\ script = RECORD
  /\ Len(written) >= 2
  /\ Len(captured) > Len(written)
  /\ streamOpen

\* the recording has ended: the interrupt stopped the writer loop, the
\* stream and the file are closed
RecordingEnded ==
  /\ script = RECORD
  /\ exc = "KeyboardInterrupt"
  /\ ~streamOpen
  /\ ~fileOpen

\* C2: record variant: once the recording has ended, every block the
\* callback enqueued has been written, so written equals captured.
C2_NoBlockDropped == RecordingEnded => written = captured

\* C3: a stream that was opened is closed in every terminal state (Return,
\* KeyboardInterrupt, exception while streaming).
C3_StreamClosedAtExit == pc = "terminated" => ~streamOpen

C3_Witness ==
  /\ pc = "terminated"
  /\ captured # <<>>
  /\ raisedAt = "streaming"
  /\ ~streamOpen

\* C4: every exception raised in setup, streaming or post-processing ends
\* the process with the message '<ErrorKind>: <message>' and a non-zero
\* status; none escapes the error handler.
C4_ExceptionsAreReported ==
  (pc = "terminated" /\ raisedAt # "none") =>
    (stderr = ErrorMessage /\ exitStatus # 0)

\* C5: a run whose setup and streaming succeed and that the user ends
\* (Return or Ctrl+C) terminates with exit status 0.
C5_UserInterruptExitsZero ==
  (pc = "terminated" /\ ended # "none" /\ raisedAt = "none") => exitStatus = 0

\* The lifecycle states of spec section 4.4, read off the state.
Phase ==
  IF pc = "terminated" THEN "Terminated"
  ELSE IF exc # "none" \/ ended # "none" THEN "ShuttingDown"
  ELSE IF streamOpen THEN "Streaming"
  ELSE "Idle"
PhaseRank ==
  CASE Phase = "Idle" -> 0
    [] Phase = "Streaming" -> 1
    [] Phase = "ShuttingDown" -> 2
    [] OTHER -> 3

PhasesInOrder == [][script = RECORD => PhaseRank' >= PhaseRank]_vars
PostPassAfterClose ==
  [](script = RECORD /\ (postRead \/ pc = "post_read") => ~streamOpen /\ ~fileOpen)
TerminatedAfterDenoise ==
  []((script = RECORD /\ pc = "terminated" /\ exc = "KeyboardInterrupt"
        /\ raisedAt = "none") => denoisedWritten)
NoWriteAfterShutdown ==
  [][(script = RECORD /\ Phase \in {"ShuttingDown", "Terminated"})
       => written' = written]_vars
NoCallbackAfterShutdown ==
  [][(script = RECORD /\ Phase \in {"ShuttingDown", "Terminated"})
       => captured' = captured]_vars
NoCallbackAfterClose ==
  [][(script = RECORD /\ Phase \in {"ShuttingDown", "Terminated"} /\ ~streamOpen)
       => captured' = captured]_vars

C8_ProducerNeverBlocksConsumerBlocksOnEmpty ==
  /\ (script = RECORD /\ streamOpen /\ Len(captured) < MaxBlocks)
       => ENABLED callback
  /\ (script = RECORD /\ pc = "streaming" /\ held = 0 /\ q = <<>>)
       => (~ENABLED WriterGet /\ ~ENABLED WriterWrite)

C8_Witness ==
  /\ script = RECORD
  /\ pc = "streaming"
  /\ Len(q) >= 2
  /\ Len(captured) < MaxBlocks
  /\ ENABLED callback

\* C10: frequency-boost variant: the stream's channel count never exceeds
\* max_input_channels, equals it when -c is not given, and a -c value the
\* user gives is accepted by the two-pass parse and used.
C10_ChannelsOption ==
  script = FREQAMP =>
    /\ streamChannels <= max_input_channels
    /\ (streamOpen /\ argv.channels = 0) => streamChannels = max_input_channels
    /\ (argv.channels # 0 /\ ~argv.list_devices /\ pc = "terminated")
         => (stderr # Usage /\ streamChannels = argv.channels)

(***************************************************************************)
(* SpecName: the record variant's file names.  A path is a sequence of     *)
(* characters; <<>> stands for args.filename being None.                   *)
(***************************************************************************)
MaxNameLen == 8
Chars == {"a", ".", "w", "v"}
Names == UNION {[1..n -> Chars] : n \in 1..MaxNameLen}

DotWav == <<".", "w", "a", "v">>
Denoised == <<"_", "d", "e", "n", "o", "i", "s", "e", "d">>

\* str.replace(old, new): every non-overlapping occurrence of old, scanning
\* from the left, is replaced by new; a string without old is unchanged
RECURSIVE replace(_, _, _)
replace(s, old, new) ==
  IF Len(s) < Len(old) THEN s
  ELSE IF SubSeq(s, 1, Len(old)) = old
    THEN new \o replace(SubSeq(s, Len(old) + 1, Len(s)), old, new)
    ELSE <<s[1]>> \o replace(Tail(s), old, new)

\* tempfile.mktemp(prefix='delme_rec_unlimited_', suffix='.wav', dir=''):
\* the prefix, random characters (none of them a dot), the suffix
mktemp(r) == <<"d", "e", "l", "m", "e", "_", r>> \o DotWav

InitName ==
  /\ filename \in Names \cup {<<>>}
  /\ denoised_filename = <<>>
  /\ fs = <<>>
  /\ npc = "args"

IdleLife ==
  /\ script = RECORD
  /\ argv = [list_devices |-> FALSE, channels |-> 0]
  /\ deviceMax = 1
  /\ max_input_channels = 0
  /\ channels = 0
  /\ pc = "off"
  /\ exc = "none"
  /\ streamOpen = FALSE
  /\ streamChannels = 0
  /\ fileOpen = FALSE
  /\ q = <<>>
  /\ held = 0
  /\ captured = <<>>
  /\ written = <<>>
  /\ raisedAt = "none"
  /\ ended = "none"
  /\ stderr = ""
  /\ exitStatus = 0
  /\ postRead = FALSE
  /\ denoisedWritten = FALSE

\* sounddevicetest.py:53-54
DefaultFilename ==
  /\ npc = "args"
  /\ IF filename = <<>>
       THEN \E r \in Chars \ {"."} : filename' = mktemp(r)
       ELSE filename' = filename
  /\ npc' = "named"
  /\ UNCHANGED <<lifeVars, filterVars, denoised_filename, fs>>

\* sounddevicetest.py:59-67: the recording is created (mode 'x': the path
\* must not exist) and filled
Record ==
  /\ npc = "named"
  /\ filename \notin DOMAIN fs
  /\ fs' = (filename :> "recording") @@ fs
  /\ npc' = "recorded"
  /\ UNCHANGED <<lifeVars, filterVars, filename, denoised_filename>>

\* sounddevicetest.py:73
NameDenoised ==
  /\ npc = "recorded"
  /\ denoised_filename' = replace(filename, DotWav, Denoised \o DotWav)
  /\ npc' = "post"
  /\ UNCHANGED <<lifeVars, filterVars, filename, fs>>

\* sounddevicetest.py:93-95: mode 'w' creates the file or truncates the
\* one that is there
WriteDenoised ==
  /\ npc = "post"
  /\ fs' = (denoised_filename :> "denoised") @@ fs
  /\ npc' = "done"
  /\ UNCHANGED <<lifeVars, filterVars, filename, denoised_filename>>

NextName ==
  \/ DefaultFilename
  \/ Record
  \/ NameDenoised
  \/ WriteDenoised

InitNameSpec == InitName /\ IdleLife /\ IdleFilter

SpecName == InitNameSpec /\ [][NextName]_vars

\* the extension of a path as os.path.splitext takes it: from the last dot
\* on, unless only dots precede it
LastDot(s) ==
  LET dots == {i \in 1..Len(s) : s[i] = "."}
  IN  IF dots = {} THEN 0 ELSE CHOOSE i \in dots : \A j \in dots : j <= i
ExtStart(s) ==
  LET d == LastDot(s)
  IN  IF d = 0 \/ (\A i \in 1..d : s[i] = ".") THEN Len(s) + 1 ELSE d
InsertBeforeExt(s, ins) ==
  SubSeq(s, 1, ExtStart(s) - 1) \o ins \o SubSeq(s, ExtStart(s), Len(s))

\* C6: for every output file name the post-pass writes a second file whose
\* path is the recording's with _denoised inserted once, right before the
\* extension; it differs from the recording's path and the recording is
\* not overwritten.
C6_DenoisedPathIsNew ==
  npc = "done" =>
    /\ denoised_filename = InsertBeforeExt(filename, Denoised)
    /\ denoised_filename # filename
    /\ fs[filename] = "recording"

(***************************************************************************)
(* SpecFilter: the frequency-boost callback.  Samples and coefficients     *)
(* are fixed-point numbers in thousandths.                                 *)
(***************************************************************************)
MaxFrames == 3
MaxAmp == 3
\* 1.0, the clip limit
One == 1000
GAIN_HIGH_FREQUENCY == 2

\* signal.butter(2, 2000 / (0.5 * 44100), btype='high'): numerator and
\* denominator of the second-order high-pass, in thousandths
butter_b == <<817, -1635, 817>>
butter_a == <<1000, -1601, 668>>

\* high_frequency_boost_filter: b *= gain
b == [i \in 1..3 |-> GAIN_HIGH_FREQUENCY * butter_b[i]]
a == butter_a

\* signal.lfilter(b, a, x, axis=0) from rest: the direct-form recurrence
\* a[0] y[n] = b[0] x[n] + b[1] x[n-1] + b[2] x[n-2] - a[1] y[n-1] - a[2] y[n-2]
RECURSIVE lfilter(_, _, _, _)
lfilter(bb, aa, x, n) ==
  IF n = 0 THEN <<>>
  ELSE LET y == lfilter(bb, aa, x, n - 1)
           X(k) == IF n - k >= 1 THEN x[n - k] ELSE 0
           Y(k) == IF n - k >= 1 THEN y[n - k] ELSE 0
       IN  Append(y, (bb[1] * X(0) + bb[2] * X(1) + bb[3] * X(2)
                        - aa[2] * Y(1) - aa[3] * Y(2)) \div aa[1])

\* np.clip(x, lo, hi), one sample
\* a faulty clip: np.minimum(x, hi), no lower limit
clipUpperOnly(x, lo, hi) == IF x > hi THEN hi ELSE x
clip(x, lo, hi) == IF x < lo THEN lo ELSE IF x > hi THEN hi ELSE x

Levels == {k * (One \div 2) : k \in -MaxAmp .. MaxAmp}
Blocks == UNION {[1..n -> Levels] : n \in 1..MaxFrames}

\* the stream hands the callback one block of input
InitFilter ==
  /\ indata \in Blocks
  /\ processed_audio = <<>>
  /\ outdata = <<>>
  /\ fpc = "called"

InitFilterSpec == InitFilter /\ IdleLife /\ IdleName

\* freqamp.py callback: copy, filter
boost_filter ==
  /\ fpc = "called"
  /\ processed_audio' = lfilter(b, a, indata, Len(indata))
  /\ fpc' = "filtered"
  /\ UNCHANGED <<lifeVars, nameVars, indata, outdata>>

\* freqamp.py callback: clip, store in the output buffer
boost_clip ==
  /\ fpc = "filtered"
  /\ outdata' = [i \in 1..Len(processed_audio) |->
                   clip(processed_audio[i], -One, One)]
  /\ fpc' = "returned"
  /\ UNCHANGED <<lifeVars, nameVars, indata, processed_audio>>

NextFilter ==
  \/ boost_filter
  \/ boost_clip

SpecFilter == InitFilterSpec /\ [][NextFilter]_vars

\* C9: every sample the frequency-boost callback writes to the output
\* buffer lies within [-1.0, 1.0], whatever the input and the gain.
C9_OutputWithinUnit ==
  fpc = "returned" =>
    /\ Len(outdata) = Len(indata)
    /\ \A i \in 1..Len(outdata) : -One <= outdata[i] /\ outdata[i] <= One

C9_Witness ==
  /\ fpc = "returned"
  /\ \E i \in 1..Len(outdata) : processed_audio[i] > One /\ outdata[i] = One
  /\ \E i \in 1..Len(outdata) : processed_audio[i] < -One /\ outdata[i] = -One

====
